---- MODULE Spec2Model ----
(***************************************************************************)
(* State-machine model of the GGUF local reranker of go-rerankers          *)
(* (pkg/reranker/gguf_local.go, rank-pooling engine with embedding         *)
(* fallback and a per-engine score cache).                                 *)
(*                                                                         *)
(* Conventions.  float64 scores are modelled by integers: every score the  *)
(* modelled external process can print, every cosine similarity of the     *)
(* modelled vectors and the sentinel are whole numbers, so no rounding is  *)
(* hidden.  A text stream is modelled as the sequence of its lines, a line *)
(* as the sequence of its whitespace-separated fields (strings.Fields).    *)
(* One handler of the engine is one action; the outputs of the external    *)
(* llama-embedding processes it launches are inputs of the action.         *)
(***************************************************************************)
EXTENDS Integers, Sequences, FiniteSets, TLC

VARIABLES
    config,      \* r.config: Model, MaxDocs, Threshold
    modelPath,   \* r.modelPath, resolved once by the constructor
    scoreCache,  \* r.scoreCache: cache key -> score
    last,        \* the call the caller made last and what it got back
    retry,       \* the (query, content) pairs whose latest scoring gave the sentinel
    scorer,      \* the external scorer when it is deterministic: pair -> answer
    first,       \* a ComputeScore call the caller remembers, to compare with a later one
    built,       \* the model the constructor was given, the disk it looked at, its error
    goroutines,  \* concurrent callers: the call each is in and where it stands in it
    cacheMutex   \* r.cacheMutex: the goroutines holding it for reading, the one writing

vars == <<config, modelPath, scoreCache, last, retry, scorer, first, built,
          goroutines, cacheMutex>>

(***************************************************************************)
(* Bounds of the model.                                                    *)
(***************************************************************************)
MaxLen == 2

(***************************************************************************)
(* Program constants.                                                      *)
(***************************************************************************)
SentinelScore == -5

DefaultMaxDocs == 100

SimilarityScale == 10

(***************************************************************************)
(* Inputs: queries, document contents, configurations.  The second query   *)
(* and the second content hold the cache-key separator, as caller text may.*)
(***************************************************************************)
Queries == {"a", "a|||b"}

ContentsFor(q) == IF q = "a" THEN {"b", "b|||b"} ELSE {"b"}

\* types.go Document (Meta left out: no handler reads it)
Document(id, content, score) == [ID |-> id, Content |-> content, Score |-> score]

SeqsUpTo(S, n) == UNION {[1..k -> S] : k \in 0..n}

\* the caller's slices: document i carries ID i and the zero Score
DocLists(q) ==
    {[i \in DOMAIN cs |-> Document(i, cs[i], 0)] : cs \in SeqsUpTo(ContentsFor(q), MaxLen)}

TopNs == {0, 1, 2}

\* configurations handed to Configure: MaxDocs unset, positive and negative,
\* thresholds at the sentinel and at a score the rank run prints
Configs ==
    { [Model |-> "models/m1.gguf", MaxDocs |-> 0,  Threshold |-> -5],
      [Model |-> "/opt/m2.gguf",   MaxDocs |-> 1,  Threshold |-> 7],
      [Model |-> "models/m1.gguf", MaxDocs |-> -1, Threshold |-> -5] }

\* configurations the engine is constructed with
StartConfigs == {c \in Configs : c.Model = "models/m1.gguf"}

\* the zero Config
NoConfig == [Model |-> "", MaxDocs |-> 0, Threshold |-> 0]

\* configurations handed to the constructor: the above, one without a model
\* path and one whose model file is on no disk
NewConfigs ==
    StartConfigs \cup {NoConfig, [Model |-> "models/none.gguf", MaxDocs |-> 0, Threshold |-> 0]}

(***************************************************************************)
(* The external process.  A run of llama-embedding either fails (spawn     *)
(* error, non-zero exit) or leaves its two output streams.                 *)
(***************************************************************************)
RankExecFail == [err |-> TRUE, stdout |-> <<>>, stderr |-> <<>>]

\* the diagnostic line of llama.cpp PR #9510: "rerank score 0: 7"
RankStderrScore ==
    [err |-> FALSE, stdout |-> <<>>, stderr |-> << <<"rerank", "score", "0:", "7">> >>]

\* nothing on the diagnostic stream, a bare number on standard output
RankStdoutScore ==
    [err |-> FALSE, stdout |-> << <<"0">> >>, stderr |-> << <<"llama_init:", "ok">> >>]

\* exit status 0 but no number anywhere
RankNoScore ==
    [err |-> FALSE, stdout |-> << <<"main:", "done">> >>,
     stderr |-> << <<"rerank", "score", "0:", "nan?">> >>]

RankRuns == {RankExecFail, RankStderrScore, RankStdoutScore, RankNoScore}

\* an embedding run: exec error, or the decoded JSON "data" list of vectors
EmbExecFail == [err |-> TRUE, json |-> FALSE, data |-> <<>>]

EmbEmptyData == [err |-> FALSE, json |-> TRUE, data |-> <<>>]

EmbUnit == [err |-> FALSE, json |-> TRUE, data |-> << <<1, 0>> >>]

EmbZero == [err |-> FALSE, json |-> TRUE, data |-> << <<0, 0>> >>]

\* a step the engine did not take
NotRun == [err |-> TRUE, json |-> FALSE, data |-> <<"not run">>]

(***************************************************************************)
(* strconv.ParseFloat on the fields the modelled streams hold.             *)
(***************************************************************************)
NumberOf == ("7" :> 7) @@ ("0" :> 0) @@ ("-5" :> -5) @@ ("10" :> 10)

ParseFloat(s) ==
    IF s \in DOMAIN NumberOf THEN [ok |-> TRUE, val |-> NumberOf[s]]
                             ELSE [ok |-> FALSE, val |-> 0]

\* strings.Contains(line, "rerank score") on a line given by its fields
ContainsMarker(parts) ==
    \E i \in 1..(Len(parts) - 1) : parts[i] = "rerank" /\ parts[i + 1] = "score"

\* the inner loop over the fields of one marked line: the first field that
\* follows a "score" field by two places and parses
LineScore(parts) ==
    LET hits == {i \in 1..Len(parts) :
                    /\ parts[i] = "score"
                    /\ i + 2 <= Len(parts)
                    /\ ParseFloat(parts[i + 2]).ok}
    IN  IF hits = {} THEN [ok |-> FALSE, val |-> 0]
        ELSE LET i == CHOOSE j \in hits : \A k \in hits : j <= k
             IN  [ok |-> TRUE, val |-> ParseFloat(parts[i + 2]).val]

\* strings.TrimSpace(stdout) as one text: a single field parses, more do not
StdoutText(stdout) ==
    IF Len(stdout) = 1 /\ Len(stdout[1]) = 1 THEN stdout[1][1] ELSE "<text>"

\* mutant: standard output is tried before the diagnostic stream
parseRerankerScoreStdoutFirst(stdout, stderr) ==
    LET hits == {l \in 1..Len(stderr) :
                    ContainsMarker(stderr[l]) /\ LineScore(stderr[l]).ok}
    IN  IF stdout # <<>> /\ ParseFloat(StdoutText(stdout)).ok
        THEN [err |-> FALSE, score |-> ParseFloat(StdoutText(stdout)).val]
        ELSE IF hits # {}
        THEN LET l == CHOOSE j \in hits : \A k \in hits : j <= k
             IN  [err |-> FALSE, score |-> LineScore(stderr[l]).val]
        ELSE [err |-> TRUE, score |-> 0]

parseRerankerScore(stdout, stderr) ==
    LET hits == {l \in 1..Len(stderr) :
                    ContainsMarker(stderr[l]) /\ LineScore(stderr[l]).ok}
    IN  IF hits # {}
        THEN LET l == CHOOSE j \in hits : \A k \in hits : j <= k
             IN  [err |-> FALSE, score |-> LineScore(stderr[l]).val]
        ELSE IF stdout # <<>> /\ ParseFloat(StdoutText(stdout)).ok
        THEN [err |-> FALSE, score |-> ParseFloat(StdoutText(stdout)).val]
        ELSE [err |-> TRUE, score |-> 0]

\* the score and error of one rank-mode run
tryRerankerInference(run) ==
    IF run.err THEN [err |-> TRUE, score |-> 0]
    ELSE parseRerankerScore(run.stdout, run.stderr)

\* the vector and error of one embedding-mode run
getEmbedding(run) ==
    IF run.err \/ ~run.json \/ Len(run.data) = 0
    THEN [err |-> TRUE, vec |-> <<>>]
    ELSE [err |-> FALSE, vec |-> run.data[1]]

RECURSIVE SumTo(_, _)
SumTo(f, n) == IF n = 0 THEN 0 ELSE f[n] + SumTo(f, n - 1)

\* math.Sqrt on the squared norms of the modelled vectors (perfect squares)
Sqrt(n) == CHOOSE r \in 0..n : r * r = n

\* mutant: equal vectors are taken to have similarity 1 without looking at them
cosineSimilarityOfEqualIsOne(a, b) ==
    IF a = b THEN 1
    ELSE IF Len(a) # Len(b) THEN 0
    ELSE LET dotProduct == SumTo([i \in 1..Len(a) |-> a[i] * b[i]], Len(a))
             normA      == SumTo([i \in 1..Len(a) |-> a[i] * a[i]], Len(a))
             normB      == SumTo([i \in 1..Len(a) |-> b[i] * b[i]], Len(a))
         IN  IF normA = 0 \/ normB = 0 THEN 0
             ELSE dotProduct \div (Sqrt(normA) * Sqrt(normB))

cosineSimilarity(a, b) ==
    IF Len(a) # Len(b) THEN 0
    ELSE LET dotProduct == SumTo([i \in 1..Len(a) |-> a[i] * b[i]], Len(a))
             normA      == SumTo([i \in 1..Len(a) |-> a[i] * a[i]], Len(a))
             normB      == SumTo([i \in 1..Len(a) |-> b[i] * b[i]], Len(a))
         IN  IF normA = 0 \/ normB = 0 THEN 0
             ELSE dotProduct \div (Sqrt(normA) * Sqrt(normB))

(***************************************************************************)
(* What the processes launched for one document answer: the rank run, and  *)
(* the two embedding runs of the fallback.  A run the engine does not get  *)
(* to is NotRun, so that one behaviour of the engine is one answer.  Each  *)
(* kind of run occurs: rank score on either stream, rank exec and parse    *)
(* failure, query and document embedding failure, fallback success.        *)
(***************************************************************************)
Answer(rank, qemb, demb) == [rank |-> rank, qemb |-> qemb, demb |-> demb]

Answers ==
    { Answer(RankStderrScore, NotRun, NotRun),
      Answer(RankStdoutScore, NotRun, NotRun),
      Answer(RankExecFail, EmbExecFail, NotRun),
      Answer(RankNoScore, EmbUnit, EmbEmptyData),
      Answer(RankExecFail, EmbUnit, EmbUnit),
      Answer(RankNoScore, EmbUnit, EmbZero) }

\* the answer that goes with a cache hit: no process is launched
Cached == Answer(NotRun, NotRun, NotRun)

(***************************************************************************)
(* The engine.                                                             *)
(***************************************************************************)
EmptyCache == [k \in {} |-> 0]

\* fmt.Sprintf("%s|||%s", query, document)
cacheKey(query, document) == query \o "|||" \o document

\* the command lines of the two modes (thread option left out)
RankCmd(mp, query, document, run) ==
    [mode |-> "rank", model |-> mp, prompt |-> query \o "</s><s>" \o document,
     run |-> run]

EmbedCmd(mp, text, run) == [mode |-> "embedding", model |-> mp, prompt |-> text, run |-> run]

\* mutant: both embeddings are requested before either is looked at
computeEmbeddingSimilarityEager(mp, query, document, ans) ==
    LET queryEmb == getEmbedding(ans.qemb)
        docEmb   == getEmbedding(ans.demb)
    IN  [err |-> queryEmb.err \/ docEmb.err,
         score |-> IF queryEmb.err \/ docEmb.err THEN 0
                   ELSE cosineSimilarity(queryEmb.vec, docEmb.vec) * SimilarityScale,
         procs |-> <<EmbedCmd(mp, query, ans.qemb), EmbedCmd(mp, document, ans.demb)>>]

\* similarity*10 of the two embeddings, or the error of the first that fails,
\* with the processes launched
computeEmbeddingSimilarity(mp, query, document, ans) ==
    LET queryEmb == getEmbedding(ans.qemb)
        docEmb   == getEmbedding(ans.demb)
    IN  IF queryEmb.err
        THEN [err |-> TRUE, score |-> 0,
              procs |-> <<EmbedCmd(mp, query, ans.qemb)>>]
        ELSE IF docEmb.err
        THEN [err |-> TRUE, score |-> 0,
              procs |-> <<EmbedCmd(mp, query, ans.qemb), EmbedCmd(mp, document, ans.demb)>>]
        ELSE [err |-> FALSE,
              score |-> cosineSimilarity(queryEmb.vec, docEmb.vec) * SimilarityScale,
              procs |-> <<EmbedCmd(mp, query, ans.qemb), EmbedCmd(mp, document, ans.demb)>>]

\* mutant: the score of the fallback path is returned but not stored
computeRerankerScoreFallbackUncached(cache, mp, query, document, ans) ==
    LET key == cacheKey(query, document)
    IN  IF key \in DOMAIN cache
        THEN [score |-> cache[key], err |-> FALSE, cache |-> cache, procs |-> <<>>]
        ELSE LET primary == tryRerankerInference(ans.rank)
                 rankCmd == RankCmd(mp, query, document, ans.rank)
             IN  IF ~primary.err
                 THEN [score |-> primary.score, err |-> FALSE,
                       cache |-> (key :> primary.score) @@ cache,
                       procs |-> <<rankCmd>>]
                 ELSE LET fallback == computeEmbeddingSimilarity(mp, query, document, ans)
                      IN  [score |-> fallback.score, err |-> fallback.err, cache |-> cache,
                           procs |-> <<rankCmd>> \o fallback.procs]

\* mutant: the failure of both paths is stored as the sentinel
computeRerankerScoreCachingFailure(cache, mp, query, document, ans) ==
    LET key == cacheKey(query, document)
    IN  IF key \in DOMAIN cache
        THEN [score |-> cache[key], err |-> FALSE, cache |-> cache, procs |-> <<>>]
        ELSE LET primary == tryRerankerInference(ans.rank)
                 rankCmd == RankCmd(mp, query, document, ans.rank)
             IN  IF ~primary.err
                 THEN [score |-> primary.score, err |-> FALSE,
                       cache |-> (key :> primary.score) @@ cache,
                       procs |-> <<rankCmd>>]
                 ELSE LET fallback == computeEmbeddingSimilarity(mp, query, document, ans)
                      IN  IF fallback.err
                          THEN [score |-> 0, err |-> TRUE,
                                cache |-> (key :> SentinelScore) @@ cache,
                                procs |-> <<rankCmd>> \o fallback.procs]
                          ELSE [score |-> fallback.score, err |-> FALSE,
                                cache |-> (key :> fallback.score) @@ cache,
                                procs |-> <<rankCmd>> \o fallback.procs]

\* one (query, document) pair: cache lookup, rank run, fallback, cache write
computeRerankerScore(cache, mp, query, document, ans) ==
    LET key == cacheKey(query, document)
    IN  IF key \in DOMAIN cache
        THEN [score |-> cache[key], err |-> FALSE, cache |-> cache, procs |-> <<>>]
        ELSE LET primary == tryRerankerInference(ans.rank)
                 rankCmd == RankCmd(mp, query, document, ans.rank)
             IN  IF ~primary.err
                 THEN [score |-> primary.score, err |-> FALSE,
                       cache |-> (key :> primary.score) @@ cache,
                       procs |-> <<rankCmd>>]
                 ELSE LET fallback == computeEmbeddingSimilarity(mp, query, document, ans)
                      IN  IF fallback.err
                          THEN [score |-> 0, err |-> TRUE, cache |-> cache,
                                procs |-> <<rankCmd>> \o fallback.procs]
                          ELSE [score |-> fallback.score, err |-> FALSE,
                                cache |-> (key :> fallback.score) @@ cache,
                                procs |-> <<rankCmd>> \o fallback.procs]

\* mutant: the failure branch leaves the zero value of the fresh slice
ScoreOrZero(r) == IF r.err THEN 0 ELSE r.score

\* the score ComputeScore stores for a document whose scoring returned r
ScoreOrSentinel(r) == IF r.err THEN SentinelScore ELSE r.score

\* mutant: results are collected newest first
ScoreStepPrepend(acc, r) ==
    [scores |-> <<ScoreOrSentinel(r)>> \o acc.scores,
     failed |-> <<r.err>> \o acc.failed,
     procs  |-> <<r.procs>> \o acc.procs,
     cache  |-> r.cache]

\* one iteration of the loop of ComputeScore: document i scored with result r
ScoreStep(acc, r) ==
    [scores |-> Append(acc.scores, ScoreOrSentinel(r)),
     failed |-> Append(acc.failed, r.err),
     procs  |-> Append(acc.procs, r.procs),
     cache  |-> r.cache]

\* the loop of ComputeScore from document i on, in input order: every way it
\* can go when the processes launched for document k answer as one of runs[k]
\* (no process is launched for a document found in the cache)
RECURSIVE ScoreLoop(_, _, _, _, _, _)
ScoreLoop(acc, mp, query, documents, runs, i) ==
    IF i > Len(documents) THEN {acc}
    ELSE UNION {ScoreLoop(ScoreStep(acc, computeRerankerScore(acc.cache, mp, query,
                                                              documents[i].Content, ans)),
                          mp, query, documents, runs, i + 1) :
                   ans \in IF cacheKey(query, documents[i].Content) \in DOMAIN acc.cache
                           THEN {Cached} ELSE runs[i]}

\* ComputeScore: one score per document, the cache threaded through the loop
ComputeScoreBody(cache, mp, query, documents, runs) ==
    ScoreLoop([scores |-> <<>>, failed |-> <<>>, procs |-> <<>>, cache |-> cache],
              mp, query, documents, runs, 1)

\* every way the loop of ComputeScore can go, over the answers of the processes
Scorings(cache, mp, query, documents) ==
    ComputeScoreBody(cache, mp, query, documents, [i \in DOMAIN documents |-> Answers])

(***************************************************************************)
(* sort.Slice with less(i, j) = Score[i] > Score[j]: the outcome is some   *)
(* permutation of the slice in which no element is less than the one       *)
(* before it; the order of elements with equal scores is not specified.    *)
(***************************************************************************)
Perms(n) == {p \in [1..n -> 1..n] : \A i, j \in 1..n : i # j => p[i] # p[j]}

Permuted(s, p) == [i \in DOMAIN s |-> s[p[i]]]

SortedDesc(s) == \A i \in 1..(Len(s) - 1) : ~(s[i + 1].Score > s[i].Score)

\* mutant: the slice is left in input order
SortSkipped(s) == {s}

SortOutcomes(s) == {t \in {Permuted(s, p) : p \in Perms(Len(s))} : SortedDesc(t)}

\* mutant: exclusive lower bound
StrictlyAboveThreshold(x, threshold) == x.Score > threshold

\* the threshold filter of Rerank and Rank
AboveThreshold(x, threshold) == x.Score >= threshold

RECURSIVE FilterSeq(_, _)
FilterSeq(s, threshold) ==
    IF s = <<>> THEN <<>>
    ELSE IF AboveThreshold(Head(s), threshold)
         THEN <<Head(s)>> \o FilterSeq(Tail(s), threshold)
         ELSE FilterSeq(Tail(s), threshold)

\* the result value RerankResult{Document, Score, Index}; Index is 0-based
RerankResult(doc, score, index) == [Document |-> doc, Score |-> score, Index |-> index]

(***************************************************************************)
(* The caller's record of a call.                                          *)
(***************************************************************************)
NoCall ==
    [op |-> "none", query |-> "", documents |-> <<>>, topN |-> 0, status |-> "ok",
     scores |-> <<>>, failed |-> <<>>, procs |-> <<>>,
     out |-> <<>>, results |-> <<>>, callerDocs |-> <<>>, retried |-> <<>>,
     given |-> NoConfig, cleared |-> {}]

\* the constructor returned an engine, and no call on it is under way
Idle == built.err = "none" /\ last.op = "none"

\* a (query, document content) pair, as handed to computeRerankerScore
Pair(query, content) == <<query, content>>

Pairs == UNION {{Pair(q, c) : c \in ContentsFor(q)} : q \in Queries}

\* deterministic external scorers: the processes launched for a pair answer the
\* same way every time (rank score, fallback score, or failure of both paths)
DetAnswers ==
    { Answer(RankStderrScore, NotRun, NotRun),
      Answer(RankExecFail, EmbUnit, EmbUnit),
      Answer(RankExecFail, EmbExecFail, NotRun) }

Scorers == [Pairs -> DetAnswers]

\* the scorer about which nothing is assumed
AnyScorer == [p \in {} |-> Cached]

\* mutant: a maximum count of 0 is taken as it is
WithoutDefaults(c) == c

\* the defaulting shared by the constructor and Configure
WithDefaults(c) == IF c.MaxDocs = 0 THEN [c EXCEPT !.MaxDocs = DefaultMaxDocs] ELSE c

\* the goroutines that call one engine side by side
Goroutines == {1, 2}

\* a goroutine that is in no call
NoGoroutineCall ==
    [pc |-> "idle", op |-> "none", query |-> "", documents |-> <<>>, topN |-> 0,
     given |-> NoConfig, i |-> 0, scores |-> <<>>, score |-> 0,
     run |-> <<>>, k |-> 0, running |-> {}, ctxDone |-> FALSE, out |-> <<>>,
     status |-> "ok", since |-> NoCall, closed |-> FALSE]

\* sync.RWMutex, zero value
Unlocked == [readers |-> {}, writer |-> 0]

\* filepath.Abs with the working directory /work
AbsPath(p) == IF p = "/opt/m2.gguf" THEN p ELSE "/work/" \o p

\* what the constructor can find: the files that exist (absolute paths) and
\* the directories of PATH that hold an executable llama-embedding
LlamaInWork == "/work/llama.cpp/build/bin/llama-embedding"

LlamaInRoot == "/llama.cpp/build/bin/llama-embedding"

ModelFiles == {"/work/models/m1.gguf", "/opt/m2.gguf"}

Disk(files, onPath) == [files |-> files, onPath |-> onPath]

\* a complete installation; the binary on PATH only; no binary; no model file
Disks ==
    { Disk(ModelFiles \cup {LlamaInWork}, {}),
      Disk(ModelFiles, {"/usr/bin"}),
      Disk(ModelFiles, {}),
      Disk({LlamaInWork}, {}) }

\* filepath.Join(filepath.Dir(modelPath), "..", "llama.cpp", "build", "bin", "llama-embedding")
BinaryBeside(mp) == IF mp = "/opt/m2.gguf" THEN LlamaInRoot ELSE LlamaInWork

\* the alternatives tried in order, with the file each names from /work
Alternatives ==
    << [name |-> "./llama.cpp/build/bin/llama-embedding", file |-> LlamaInWork],
       [name |-> "../llama.cpp/build/bin/llama-embedding", file |-> LlamaInRoot],
       [name |-> "../../llama.cpp/build/bin/llama-embedding", file |-> LlamaInRoot],
       [name |-> "llama-embedding", file |-> "/work/llama-embedding"] >>

\* exec.LookPath: a name with a slash is looked up as a file, a bare name in PATH
LookPath(alt, disk) ==
    IF alt.name = "llama-embedding" THEN disk.onPath # {} ELSE alt.file \in disk.files

\* the binary the constructor settles on, as the file os.Stat will look at;
\* <<>> when neither the path beside the model nor an alternative is found
FindBinary(mp, disk) ==
    IF BinaryBeside(mp) \in disk.files THEN <<BinaryBeside(mp)>>
    ELSE LET hits == {k \in DOMAIN Alternatives : LookPath(Alternatives[k], disk)}
         IN  IF hits = {} THEN <<>>
             ELSE <<Alternatives[CHOOSE k \in hits : \A j \in hits : k <= j].file>>

\* testModel: os.Stat of the binary and of the model
testModel(binary, mp, disk) == binary \in disk.files /\ mp \in disk.files

Failed(err, c) == [err |-> err, config |-> c, modelPath |-> ""]

\* mutant: the constructor returns an engine for every non-empty model path
NewGGUFLocalRerankerUnchecked(c, disk) ==
    IF c.Model = "" THEN Failed("ErrInvalidInput", c)
    ELSE [err |-> "none", config |-> WithDefaults(c), modelPath |-> AbsPath(c.Model)]

NewGGUFLocalReranker(c, disk) ==
    IF c.Model = "" THEN Failed("ErrInvalidInput", c)
    ELSE LET mp     == AbsPath(c.Model)
             binary == FindBinary(mp, disk)
         IN  IF binary = <<>> THEN Failed("ErrInitialization", c)
             ELSE IF mp \notin disk.files THEN Failed("ErrInitialization", c)
             ELSE IF ~testModel(binary[1], mp, disk) THEN Failed("ErrInitialization", c)
             ELSE [err |-> "none", config |-> WithDefaults(c), modelPath |-> mp]

\* the caller's record of the construction
Built(c, disk) == [model |-> c.Model, disk |-> disk, err |-> NewGGUFLocalReranker(c, disk).err]

Init ==
    \E c \in NewConfigs : \E disk \in Disks :
        /\ built = Built(c, disk)
        /\ config = NewGGUFLocalReranker(c, disk).config
        /\ modelPath = NewGGUFLocalReranker(c, disk).modelPath
        /\ scoreCache = EmptyCache
        /\ last = NoCall
        /\ retry = {}
        /\ scorer = AnyScorer
        /\ first = NoCall
        /\ goroutines = [g \in Goroutines |-> NoGoroutineCall]
        /\ cacheMutex = Unlocked

(***************************************************************************)
(* Handlers.                                                               *)
(***************************************************************************)
\* the caller's record of a scoring call
Call(op, query, documents, topN, scored, callerDocs) ==
    [NoCall EXCEPT !.op = op, !.query = query, !.documents = documents, !.topN = topN,
                   !.scores = scored.scores, !.failed = scored.failed,
                   !.procs = scored.procs, !.callerDocs = callerDocs,
                   !.retried = [i \in DOMAIN documents |->
                                   Pair(query, documents[i].Content) \in retry]]

\* the pairs left with the sentinel once the scores of a call are in
RECURSIVE RetryAfter(_, _, _, _)
RetryAfter(pending, query, documents, failed) ==
    IF documents = <<>> THEN pending
    ELSE RetryAfter(IF Head(failed)
                    THEN pending \cup {Pair(query, Head(documents).Content)}
                    ELSE pending \ {Pair(query, Head(documents).Content)},
                    query, Tail(documents), Tail(failed))

ComputeScore(query, documents) ==
    /\ Idle
    /\ \E scored \in Scorings(scoreCache, modelPath, query, documents) :
         /\ scoreCache' = scored.cache
         /\ last' = Call("ComputeScore", query, documents, 0, scored, documents)
         /\ retry' = RetryAfter(retry, query, documents, scored.failed)
    /\ UNCHANGED <<config, modelPath, built, goroutines, cacheMutex, scorer, first>>

\* the slice expression s[:n] for 0 <= n <= len(s)
SliceTo(s, n) == SubSeq(s, 1, n)

\* documents[i].Score = scores[i], written into the caller's slice
ApplyScores(documents, scores) ==
    [i \in DOMAIN documents |-> [documents[i] EXCEPT !.Score = scores[i]]]

\* the end of Rerank: threshold filter, then the cut to MaxDocs
RerankOutcome(call, sorted, cfg) ==
    LET filtered == FilterSeq(sorted, cfg.Threshold)
    IN  IF Len(filtered) > cfg.MaxDocs
        THEN IF cfg.MaxDocs < 0
             THEN [call EXCEPT !.status = "panic"]
             ELSE [call EXCEPT !.out = SliceTo(filtered, cfg.MaxDocs)]
        ELSE [call EXCEPT !.out = filtered]

\* Rerank past its empty-input return
RerankScored(query, documents) ==
    /\ Idle
    /\ \E scored \in Scorings(scoreCache, modelPath, query, documents) :
         /\ scoreCache' = scored.cache
         /\ \E sorted \in SortOutcomes(ApplyScores(documents, scored.scores)) :
              last' = RerankOutcome(
                          Call("Rerank", query, documents, 0, scored, sorted),
                          sorted, config)
         /\ retry' = RetryAfter(retry, query, documents, scored.failed)
    /\ UNCHANGED <<config, modelPath, built, goroutines, cacheMutex, scorer, first>>

\* mutant: no early return for an empty slice
RerankUnguarded(query, documents) == RerankScored(query, documents)

Rerank(query, documents) ==
    IF Len(documents) = 0
    THEN /\ Idle
         /\ last' = [NoCall EXCEPT !.op = "Rerank", !.query = query]
         /\ UNCHANGED <<config, modelPath, built, goroutines, cacheMutex, scoreCache, retry,
                   scorer, first>>
    ELSE RerankScored(query, documents)

\* mutant: Index is left at its zero value
MakeResultsUnindexed(documents, scores) ==
    [i \in DOMAIN documents |-> RerankResult(documents[i], scores[i], 0)]

\* results[i] = RerankResult{Document: doc, Score: scores[i], Index: i}
MakeResults(documents, scores) ==
    [i \in DOMAIN documents |-> RerankResult(documents[i], scores[i], i - 1)]

\* mutant: the cut to topN is left out
RankOutcomeUncut(call, sorted, cfg, topN) ==
    [call EXCEPT !.results = FilterSeq(sorted, cfg.Threshold)]

\* the end of Rank: threshold filter, then the cut to topN
RankOutcome(call, sorted, cfg, topN) ==
    LET filtered == FilterSeq(sorted, cfg.Threshold)
    IN  IF topN > 0 /\ Len(filtered) > topN
        THEN [call EXCEPT !.results = SliceTo(filtered, topN)]
        ELSE [call EXCEPT !.results = filtered]

Rank(query, documents, topN) ==
    /\ Idle
    /\ IF Len(documents) = 0
       THEN /\ last' = [NoCall EXCEPT !.op = "Rank", !.query = query, !.topN = topN]
            /\ UNCHANGED <<scoreCache, retry>>
       ELSE \E scored \in Scorings(scoreCache, modelPath, query, documents) :
              /\ scoreCache' = scored.cache
              /\ retry' = RetryAfter(retry, query, documents, scored.failed)
              /\ \E sorted \in SortOutcomes(MakeResults(documents, scored.scores)) :
                   last' = RankOutcome(
                               Call("Rank", query, documents, topN, scored, documents),
                               sorted, config, topN)
    /\ UNCHANGED <<config, modelPath, built, goroutines, cacheMutex, scorer, first>>

\* mutant: a new configuration empties the cache
ConfigureClearing(c) ==
    /\ Idle
    /\ config' = WithDefaults(c)
    /\ scoreCache' = EmptyCache
    /\ last' = [NoCall EXCEPT !.op = "Configure", !.given = c]
    /\ UNCHANGED <<modelPath, built, goroutines, cacheMutex, retry, scorer, first>>

Configure(c) ==
    /\ Idle
    /\ config' = WithDefaults(c)
    /\ last' = [NoCall EXCEPT !.op = "Configure", !.given = c]
    /\ UNCHANGED <<modelPath, built, goroutines, cacheMutex, scoreCache, retry, scorer, first>>

\* mutant: Close returns without touching the cache
CloseKeeping ==
    /\ Idle
    /\ last' = [NoCall EXCEPT !.op = "Close", !.cleared = DOMAIN scoreCache]
    /\ UNCHANGED <<config, modelPath, built, goroutines, cacheMutex, scoreCache, retry,
                   scorer, first>>

\* Close; the caller's record notes the keys the cache held when it was called
Close ==
    /\ Idle
    /\ scoreCache' = EmptyCache
    /\ last' = [NoCall EXCEPT !.op = "Close", !.cleared = DOMAIN scoreCache]
    /\ UNCHANGED <<config, modelPath, built, goroutines, cacheMutex, retry, scorer, first>>

\* the caller takes what the call returned and is free to call again
Return ==
    /\ last.op # "none"
    /\ last' = NoCall
    /\ UNCHANGED <<config, modelPath, built, goroutines, cacheMutex, scoreCache, retry,
                   scorer, first>>

CallComputeScore == \E q \in Queries : \E docs \in DocLists(q) : ComputeScore(q, docs)

CallRerank == \E q \in Queries : \E docs \in DocLists(q) : Rerank(q, docs)

CallRank ==
    \E q \in Queries : \E docs \in DocLists(q) : \E n \in TopNs : Rank(q, docs, n)

CallConfigure == \E c \in Configs : Configure(c)

Next ==
    \/ CallComputeScore
    \/ CallRerank
    \/ CallRank
    \/ CallConfigure
    \/ Close
    \/ Return

Spec == Init /\ [][Next]_vars

(***************************************************************************)
(* The engine in front of a deterministic scorer, with ComputeScore as the *)
(* only handler called: no Configure and no Close happens.                 *)
(***************************************************************************)
InitDet ==
    \E c \in StartConfigs : \E disk \in Disks : \E s \in Scorers :
        /\ built = Built(c, disk)
        /\ built.err = "none"
        /\ config = NewGGUFLocalReranker(c, disk).config
        /\ modelPath = NewGGUFLocalReranker(c, disk).modelPath
        /\ scoreCache = EmptyCache
        /\ last = NoCall
        /\ retry = {}
        /\ scorer = s
        /\ first = NoCall
        /\ goroutines = [g \in Goroutines |-> NoGoroutineCall]
        /\ cacheMutex = Unlocked

\* ComputeScore, the processes answering as the scorer does for each pair; the
\* caller may keep the call in mind if it remembers none yet
DetComputeScore(query, documents) ==
    /\ Idle
    /\ \E scored \in ComputeScoreBody(scoreCache, modelPath, query, documents,
                         [i \in DOMAIN documents |->
                             {scorer[Pair(query, documents[i].Content)]}]) :
         /\ scoreCache' = scored.cache
         /\ last' = Call("ComputeScore", query, documents, 0, scored, documents)
         /\ retry' = RetryAfter(retry, query, documents, scored.failed)
         /\ \E keep \in BOOLEAN :
              first' = IF keep /\ first.op = "none" THEN last' ELSE first
    /\ UNCHANGED <<config, modelPath, built, goroutines, cacheMutex, scorer>>

DetCallComputeScore ==
    \E q \in Queries : \E docs \in DocLists(q) : DetComputeScore(q, docs)

NextDet ==
    \/ DetCallComputeScore
    \/ Return

SpecDet == InitDet /\ [][NextDet]_vars

(***************************************************************************)
(* Rerank and Rank called one after the other under a deterministic        *)
(* scorer.  The caller remembers the call made just before (first); Rank   *)
(* is called with topN = MaxDocs, on a fresh slice or on the slice the     *)
(* Rerank before it was handed and has written its scores into.            *)
(***************************************************************************)
\* the query the two calls are made with
AgreeQueries == {"a"}

\* the scorers that differ on the pairs of the queries called here
AgreeScorers ==
    {s \in Scorers :
        \A p \in Pairs :
            p[1] \notin AgreeQueries => s[p] = Answer(RankExecFail, EmbExecFail, NotRun)}

InitAgree ==
    \E c \in StartConfigs : \E disk \in Disks : \E s \in AgreeScorers :
        /\ built = Built(c, disk)
        /\ built.err = "none"
        /\ config = NewGGUFLocalReranker(c, disk).config
        /\ modelPath = NewGGUFLocalReranker(c, disk).modelPath
        /\ scoreCache = EmptyCache
        /\ last = NoCall
        /\ retry = {}
        /\ scorer = s
        /\ first = NoCall
        /\ goroutines = [g \in Goroutines |-> NoGoroutineCall]
        /\ cacheMutex = Unlocked

\* every way ComputeScore can go when the processes answer as the scorer does
DetScorings(query, documents) ==
    ComputeScoreBody(scoreCache, modelPath, query, documents,
                     [i \in DOMAIN documents |->
                         {scorer[Pair(query, documents[i].Content)]}])

DetRerank(query, documents) ==
    /\ Idle
    /\ IF Len(documents) = 0
       THEN /\ last' = [NoCall EXCEPT !.op = "Rerank", !.query = query]
            /\ UNCHANGED <<scoreCache, retry>>
       ELSE \E scored \in DetScorings(query, documents) :
              /\ scoreCache' = scored.cache
              /\ retry' = RetryAfter(retry, query, documents, scored.failed)
              /\ \E sorted \in SortOutcomes(ApplyScores(documents, scored.scores)) :
                   last' = RerankOutcome(
                               Call("Rerank", query, documents, 0, scored, sorted),
                               sorted, config)
    /\ UNCHANGED <<config, modelPath, built, goroutines, cacheMutex, scorer, first>>

DetRank(query, documents, topN) ==
    /\ Idle
    /\ IF Len(documents) = 0
       THEN /\ last' = [NoCall EXCEPT !.op = "Rank", !.query = query, !.topN = topN]
            /\ UNCHANGED <<scoreCache, retry>>
       ELSE \E scored \in DetScorings(query, documents) :
              /\ scoreCache' = scored.cache
              /\ retry' = RetryAfter(retry, query, documents, scored.failed)
              /\ \E sorted \in SortOutcomes(MakeResults(documents, scored.scores)) :
                   last' = RankOutcome(
                               Call("Rank", query, documents, topN, scored, documents),
                               sorted, config, topN)
    /\ UNCHANGED <<config, modelPath, built, goroutines, cacheMutex, scorer, first>>

\* the slice a Rerank just before was handed, as that Rerank left it
PassedBefore == IF first.op = "Rerank" THEN {first.callerDocs} ELSE {}

DetCallRerank == \E q \in AgreeQueries : \E docs \in DocLists(q) : DetRerank(q, docs)

DetCallRank ==
    \E q \in AgreeQueries : \E docs \in DocLists(q) \cup PassedBefore :
        DetRank(q, docs, config.MaxDocs)

\* the caller takes what the call returned and keeps it in mind
ReturnRemembered ==
    /\ last.op # "none"
    /\ first' = last
    /\ last' = NoCall
    /\ UNCHANGED <<config, modelPath, built, goroutines, cacheMutex, scoreCache, retry,
                   scorer>>

NextAgree ==
    \/ DetCallRerank
    \/ DetCallRank
    \/ CallConfigure
    \/ ReturnRemembered

SpecAgree == InitAgree /\ [][NextAgree]_vars

(***************************************************************************)
(* The engine called by several goroutines at once.  A handler is run one  *)
(* statement at a time where it touches what the goroutines share: the     *)
(* mutex operations, the cache lookup and write, the reads and writes of   *)
(* r.config, the start and the exit of an external process.  The context   *)
(* of a call can be cancelled while its process runs.                      *)
(***************************************************************************)
\* the concurrent callers ask about one query and pass one document or none
ConcQueries == {"a"}

ConcDocLists(q) == {docs \in DocLists(q) : Len(docs) <= 1}

\* what the processes of a concurrent call answer: a rank score, or the failure
\* of the rank run and of the query embedding
ConcAnswers ==
    { Answer(RankStderrScore, NotRun, NotRun),
      Answer(RankExecFail, EmbExecFail, NotRun) }

\* the goroutines that pass a context with cancel; the others pass
\* context.Background()
Cancellable == {1}

\* what is left unchanged by every step of a goroutine
sequential == <<modelPath, last, retry, scorer, first, built>>

InitConc ==
    \E c \in StartConfigs : \E disk \in Disks :
        /\ built = Built(c, disk)
        /\ built.err = "none"
        /\ config = NewGGUFLocalReranker(c, disk).config
        /\ modelPath = NewGGUFLocalReranker(c, disk).modelPath
        /\ scoreCache = EmptyCache
        /\ last = NoCall
        /\ retry = {}
        /\ scorer = AnyScorer
        /\ first = NoCall
        /\ goroutines = [g \in Goroutines |-> NoGoroutineCall]
        /\ cacheMutex = Unlocked

\* goroutine g goes on as gr
Goes(g, gr) == goroutines' = [goroutines EXCEPT ![g] = gr]

\* the cache key of the document goroutine record gr is scoring
KeyAt(gr) == cacheKey(gr.query, gr.documents[gr.i].Content)

\* scores[i] is assigned and the loop of ComputeScore goes to the next document,
\* or ComputeScore returns (to its caller, or into Rerank or Rank)
Scored(gr, score) ==
    IF gr.i < Len(gr.documents)
    THEN [gr EXCEPT !.scores = Append(gr.scores, score), !.i = gr.i + 1, !.pc = "rlock",
                    !.score = 0, !.run = <<>>, !.k = 0, !.running = {}]
    ELSE [gr EXCEPT !.scores = Append(gr.scores, score),
                    !.pc = IF gr.op = "ComputeScore" THEN "done" ELSE "filter",
                    !.score = 0, !.run = <<>>, !.k = 0, !.running = {}]

\* a goroutine calls ComputeScore, Rerank or Rank
BeginScoring(g, op, query, documents, topN) ==
    /\ goroutines[g].pc = "idle"
    /\ Goes(g, [NoGoroutineCall EXCEPT !.op = op, !.query = query,
                                       !.documents = documents, !.topN = topN,
                                       !.i = IF Len(documents) = 0 THEN 0 ELSE 1,
                                       !.pc = IF Len(documents) = 0 THEN "done" ELSE "rlock"])
    /\ UNCHANGED <<config, scoreCache, cacheMutex, sequential>>

\* r.cacheMutex.RLock(): waits while a writer holds the mutex
RLock(g) ==
    /\ goroutines[g].pc = "rlock"
    /\ cacheMutex.writer = 0
    /\ cacheMutex' = [cacheMutex EXCEPT !.readers = @ \cup {g}]
    /\ Goes(g, [goroutines[g] EXCEPT !.pc = "lookup"])
    /\ UNCHANGED <<config, scoreCache, sequential>>

\* cached, exists := r.scoreCache[cacheKey]
Lookup(g) ==
    /\ goroutines[g].pc = "lookup"
    /\ IF KeyAt(goroutines[g]) \in DOMAIN scoreCache
       THEN Goes(g, [goroutines[g] EXCEPT !.pc = "runlock_hit",
                                          !.score = scoreCache[KeyAt(goroutines[g])]])
       ELSE Goes(g, [goroutines[g] EXCEPT !.pc = "runlock_miss"])
    /\ UNCHANGED <<config, scoreCache, cacheMutex, sequential>>

\* r.cacheMutex.RUnlock(), on a hit followed by the return of the cached score
RUnlock(g) ==
    /\ goroutines[g].pc \in {"runlock_hit", "runlock_miss"}
    /\ cacheMutex' = [cacheMutex EXCEPT !.readers = @ \ {g}]
    /\ IF goroutines[g].pc = "runlock_hit"
       THEN Goes(g, Scored(goroutines[g], goroutines[g].score))
       ELSE Goes(g, [goroutines[g] EXCEPT !.pc = "spawn"])
    /\ UNCHANGED <<config, scoreCache, sequential>>

\* the rank process is started with r.modelPath and the thread option of
\* r.config; what it and the processes of the fallback will answer is fixed here
Spawn(g) ==
    /\ goroutines[g].pc = "spawn"
    /\ \E ans \in ConcAnswers :
         Goes(g, [goroutines[g] EXCEPT
                     !.pc = "wait", !.k = 1, !.running = {1},
                     !.run = computeRerankerScore(EmptyCache, modelPath, goroutines[g].query,
                                 goroutines[g].documents[goroutines[g].i].Content, ans)])
    /\ UNCHANGED <<config, scoreCache, cacheMutex, sequential>>

\* mutant: the next process of the fallback is started while the one before it
\* is still running
ExitUnreaped(g) ==
    /\ goroutines[g].pc = "wait"
    /\ IF goroutines[g].k < Len(goroutines[g].run.procs)
       THEN Goes(g, [goroutines[g] EXCEPT !.k = @ + 1,
                                          !.running = @ \cup {goroutines[g].k + 1}])
       ELSE IF goroutines[g].run.err
       THEN Goes(g, Scored(goroutines[g], SentinelScore))
       ELSE Goes(g, [goroutines[g] EXCEPT !.pc = "lock", !.score = goroutines[g].run.score,
                                          !.run = <<>>, !.k = 0, !.running = {}])
    /\ UNCHANGED <<config, scoreCache, cacheMutex, sequential>>

\* cmd.Run() returns because the process has exited by itself and has been
\* reaped; the next process of the fallback is started, or the score goes to
\* the cache, or the failure of both paths gives the sentinel
Exit(g) ==
    /\ goroutines[g].pc = "wait"
    /\ IF goroutines[g].k < Len(goroutines[g].run.procs)
       THEN Goes(g, [goroutines[g] EXCEPT !.k = @ + 1,
                                          !.running = (@ \ {goroutines[g].k})
                                                          \cup {goroutines[g].k + 1}])
       ELSE IF goroutines[g].run.err
       THEN Goes(g, Scored(goroutines[g], SentinelScore))
       ELSE Goes(g, [goroutines[g] EXCEPT !.pc = "lock", !.score = goroutines[g].run.score,
                                          !.run = <<>>, !.k = 0, !.running = {}])
    /\ UNCHANGED <<config, scoreCache, cacheMutex, sequential>>

\* the context of the call is cancelled, or its deadline passes, while one of
\* its processes runs
Cancel(g) ==
    /\ g \in Cancellable
    /\ goroutines[g].pc = "wait"
    /\ ~goroutines[g].ctxDone
    /\ Goes(g, [goroutines[g] EXCEPT !.ctxDone = TRUE])
    /\ UNCHANGED <<config, scoreCache, cacheMutex, sequential>>

\* mutant: the write goes ahead without the mutex
LockSkipped(g) ==
    /\ goroutines[g].pc = "lock"
    /\ Goes(g, [goroutines[g] EXCEPT !.pc = IF goroutines[g].op = "Close"
                                            THEN "clear" ELSE "put"])
    /\ UNCHANGED <<config, scoreCache, cacheMutex, sequential>>

\* r.cacheMutex.Lock(): waits while readers or a writer hold the mutex
Lock(g) ==
    /\ goroutines[g].pc = "lock"
    /\ cacheMutex.writer = 0 /\ cacheMutex.readers = {}
    /\ cacheMutex' = [cacheMutex EXCEPT !.writer = g]
    /\ Goes(g, [goroutines[g] EXCEPT !.pc = IF goroutines[g].op = "Close"
                                            THEN "clear" ELSE "put"])
    /\ UNCHANGED <<config, scoreCache, sequential>>

\* r.scoreCache[cacheKey] = score
Put(g) ==
    /\ goroutines[g].pc = "put"
    /\ scoreCache' = [key \in DOMAIN scoreCache \cup {KeyAt(goroutines[g])} |->
                          IF key = KeyAt(goroutines[g]) THEN goroutines[g].score
                          ELSE scoreCache[key]]
    /\ Goes(g, [goroutines[g] EXCEPT !.pc = "unlock"])
    /\ UNCHANGED <<config, cacheMutex, sequential>>

\* Close: r.scoreCache = make(map[string]float64)
Clear(g) ==
    /\ goroutines[g].pc = "clear"
    /\ scoreCache' = EmptyCache
    /\ Goes(g, [goroutines[g] EXCEPT !.pc = "unlock"])
    /\ UNCHANGED <<config, cacheMutex, sequential>>

\* r.cacheMutex.Unlock(), followed by the return of the score, or of Close
Unlock(g) ==
    /\ goroutines[g].pc = "unlock"
    /\ cacheMutex' = [cacheMutex EXCEPT !.writer = 0]
    /\ IF goroutines[g].op = "Close"
       THEN Goes(g, [goroutines[g] EXCEPT !.pc = "done"])
       ELSE Goes(g, Scored(goroutines[g], goroutines[g].score))
    /\ UNCHANGED <<config, scoreCache, sequential>>

\* Rerank and Rank after ComputeScore: the sort, then the filter, which reads
\* r.config.Threshold
Filter(g) ==
    /\ goroutines[g].pc = "filter"
    /\ \E sorted \in SortOutcomes(IF goroutines[g].op = "Rerank"
                                   THEN ApplyScores(goroutines[g].documents,
                                                    goroutines[g].scores)
                                   ELSE MakeResults(goroutines[g].documents,
                                                    goroutines[g].scores)) :
         Goes(g, [goroutines[g] EXCEPT !.pc = "cut",
                                       !.out = FilterSeq(sorted, config.Threshold)])
    /\ UNCHANGED <<config, scoreCache, cacheMutex, sequential>>

\* the cut: Rerank reads r.config.MaxDocs, Rank its topN
Cut(g) ==
    /\ goroutines[g].pc = "cut"
    /\ IF goroutines[g].op = "Rerank"
       THEN IF Len(goroutines[g].out) > config.MaxDocs
            THEN IF config.MaxDocs < 0
                 THEN Goes(g, [goroutines[g] EXCEPT !.pc = "done", !.status = "panic"])
                 ELSE Goes(g, [goroutines[g] EXCEPT
                                  !.pc = "done", !.out = SliceTo(@, config.MaxDocs)])
            ELSE Goes(g, [goroutines[g] EXCEPT !.pc = "done"])
       ELSE IF goroutines[g].topN > 0 /\ Len(goroutines[g].out) > goroutines[g].topN
            THEN Goes(g, [goroutines[g] EXCEPT
                             !.pc = "done", !.out = SliceTo(@, goroutines[g].topN)])
            ELSE Goes(g, [goroutines[g] EXCEPT !.pc = "done"])
    /\ UNCHANGED <<config, scoreCache, cacheMutex, sequential>>

\* a goroutine calls Configure
BeginConfigure(g, c) ==
    /\ goroutines[g].pc = "idle"
    /\ Goes(g, [NoGoroutineCall EXCEPT !.op = "Configure", !.given = c, !.pc = "assign"])
    /\ UNCHANGED <<config, scoreCache, cacheMutex, sequential>>

\* r.config = config
Assign(g) ==
    /\ goroutines[g].pc = "assign"
    /\ config' = goroutines[g].given
    /\ Goes(g, [goroutines[g] EXCEPT !.pc = "default"])
    /\ UNCHANGED <<scoreCache, cacheMutex, sequential>>

\* if r.config.MaxDocs == 0 { r.config.MaxDocs = 100 }
Default(g) ==
    /\ goroutines[g].pc = "default"
    /\ config' = WithDefaults(config)
    /\ Goes(g, [goroutines[g] EXCEPT !.pc = "done"])
    /\ UNCHANGED <<scoreCache, cacheMutex, sequential>>

\* a goroutine calls Close
BeginClose(g) ==
    /\ goroutines[g].pc = "idle"
    /\ Goes(g, [NoGoroutineCall EXCEPT !.op = "Close", !.pc = "lock"])
    /\ UNCHANGED <<config, scoreCache, cacheMutex, sequential>>

\* the call returns to the goroutine that made it
Done(g) ==
    /\ goroutines[g].pc = "done"
    /\ Goes(g, NoGoroutineCall)
    /\ UNCHANGED <<config, scoreCache, cacheMutex, sequential>>

ConcCallScoring ==
    \E g \in Goroutines : \E q \in ConcQueries : \E docs \in ConcDocLists(q) :
        \/ BeginScoring(g, "ComputeScore", q, docs, 0)
        \/ BeginScoring(g, "Rerank", q, docs, 0)
        \/ BeginScoring(g, "Rank", q, docs, 0)

ConcCallConfigure == \E g \in Goroutines : \E c \in Configs : BeginConfigure(g, c)

ConcCallClose == \E g \in Goroutines : BeginClose(g)

ConcStep ==
    \E g \in Goroutines :
        \/ RLock(g) \/ Lookup(g) \/ RUnlock(g)
        \/ Spawn(g) \/ Exit(g) \/ Cancel(g)
        \/ Lock(g) \/ Put(g) \/ Clear(g) \/ Unlock(g)
        \/ Filter(g) \/ Cut(g)
        \/ Assign(g) \/ Default(g)
        \/ Done(g)

NextConc ==
    \/ ConcCallScoring
    \/ ConcCallConfigure
    \/ ConcCallClose
    \/ ConcStep

SpecConc == InitConc /\ [][NextConc]_vars

\* one goroutine scores batches of up to MaxLen documents statement by
\* statement while the other calls Configure and Close
BatchCallScoring ==
    \E q \in ConcQueries : \E docs \in DocLists(q) :
        \/ BeginScoring(1, "ComputeScore", q, docs, 0)
        \/ BeginScoring(1, "Rerank", q, docs, 0)
        \/ BeginScoring(1, "Rank", q, docs, 0)

NextBatch ==
    \/ BatchCallScoring
    \/ ConcCallConfigure
    \/ ConcCallClose
    \/ ConcStep

SpecBatch == InitConc /\ [][NextBatch]_vars

(***************************************************************************)
(* Two goroutines score single pairs side by side while the scorer answers *)
(* differently from one invocation to the next.  The callers remember the  *)
(* first score handed out since the last Close (first), and every call     *)
(* notes what was remembered when it began (since): such a call is a later *)
(* scoring than the remembered one.  Close forgets both, and a call that   *)
(* was in flight when Close was called or cleared the cache is not         *)
(* remembered.                                                             *)
(***************************************************************************)
\* the scorer gives 7 on the diagnostic stream, 0 on standard output, or fails
RaceAnswers ==
    { Answer(RankStderrScore, NotRun, NotRun),
      Answer(RankStdoutScore, NotRun, NotRun),
      Answer(RankExecFail, EmbExecFail, NotRun) }

\* every call in flight and the callers forget what was remembered
Forgotten(gs) ==
    [h \in Goroutines |-> [gs[h] EXCEPT !.since = NoCall, !.closed = (gs[h].pc # "idle")]]

RaceBeginScoring(g, query, documents) ==
    /\ goroutines[g].pc = "idle"
    /\ Goes(g, [NoGoroutineCall EXCEPT !.op = "ComputeScore", !.query = query,
                                       !.documents = documents, !.i = 1,
                                       !.pc = "rlock", !.since = first])
    /\ UNCHANGED <<config, scoreCache, cacheMutex, sequential>>

RaceSpawn(g) ==
    /\ goroutines[g].pc = "spawn"
    /\ \E ans \in RaceAnswers :
         Goes(g, [goroutines[g] EXCEPT
                     !.pc = "wait", !.k = 1, !.running = {1},
                     !.run = computeRerankerScore(EmptyCache, modelPath, goroutines[g].query,
                                 goroutines[g].documents[goroutines[g].i].Content, ans)])
    /\ UNCHANGED <<config, scoreCache, cacheMutex, sequential>>

RaceBeginClose(g) ==
    /\ goroutines[g].pc = "idle"
    /\ goroutines' = [Forgotten(goroutines) EXCEPT
                          ![g] = [NoGoroutineCall EXCEPT !.op = "Close", !.pc = "lock"]]
    /\ first' = NoCall
    /\ UNCHANGED <<config, modelPath, scoreCache, cacheMutex, last, retry, scorer, built>>

RaceClear(g) ==
    /\ goroutines[g].pc = "clear"
    /\ scoreCache' = EmptyCache
    /\ goroutines' = [Forgotten(goroutines) EXCEPT ![g].pc = "unlock"]
    /\ first' = NoCall
    /\ UNCHANGED <<config, modelPath, cacheMutex, last, retry, scorer, built>>

\* the call returns; the first score that is not the sentinel is remembered
RaceDone(g) ==
    /\ goroutines[g].pc = "done"
    /\ Goes(g, NoGoroutineCall)
    /\ first' = IF /\ first = NoCall
                   /\ ~goroutines[g].closed
                   /\ goroutines[g].op = "ComputeScore"
                   /\ goroutines[g].scores # <<SentinelScore>>
                THEN [NoCall EXCEPT !.op = "ComputeScore", !.query = goroutines[g].query,
                                    !.documents = goroutines[g].documents,
                                    !.scores = goroutines[g].scores]
                ELSE first
    /\ UNCHANGED <<config, modelPath, scoreCache, cacheMutex, last, retry, scorer, built>>

RaceCallScoring ==
    \E g \in Goroutines : \E q \in ConcQueries : \E docs \in ConcDocLists(q) :
        Len(docs) = 1 /\ RaceBeginScoring(g, q, docs)

RaceCallClose == \E g \in Goroutines : RaceBeginClose(g)

RaceStep ==
    \E g \in Goroutines :
        \/ RLock(g) \/ Lookup(g) \/ RUnlock(g)
        \/ RaceSpawn(g) \/ Exit(g)
        \/ Lock(g) \/ Put(g) \/ RaceClear(g) \/ Unlock(g)
        \/ RaceDone(g)

NextRace ==
    \/ RaceCallScoring
    \/ RaceCallClose
    \/ RaceStep

SpecRace == InitConc /\ [][NextRace]_vars

(***************************************************************************)
(* The pure functions of the engine applied to inputs of their own: the    *)
(* score parser to output streams, the cosine similarity and the fallback  *)
(* that scales it to embedding vectors.                                    *)
(***************************************************************************)
\* lines of the diagnostic stream: the score line, one whose value does not
\* parse, one too short to hold a value, one with a second "score" field whose
\* value parses, one with a value but without the marker, one of another kind
StderrLines ==
    { <<"rerank", "score", "0:", "7">>,
      <<"rerank", "score", "0:", "nan?">>,
      <<"rerank", "score", "0:">>,
      <<"rerank", "score", "of", "doc", "score", "1:", "-5">>,
      <<"final", "score", "0:", "10">>,
      <<"llama_init:", "ok">> }

Stderrs == SeqsUpTo(StderrLines, MaxLen)

\* standard output: empty, one number, one line of text, two lines of numbers
Stdouts == { <<>>, << <<"0">> >>, << <<"main:", "done">> >>, << <<"10">>, <<"7">> >> }

\* embedding vectors: empty, of one and of two components, zero and along an axis
Vectors ==
    { <<>>, <<0>>, <<1>>, <<-1>>, <<2>>,
      <<0, 0>>, <<1, 0>>, <<0, 1>>, <<-1, 0>>, <<0, -1>>, <<2, 0>>, <<0, 2>> }

\* an embedding run that answers with one vector
EmbOf(v) == [err |-> FALSE, json |-> TRUE, data |-> <<v>>]

InitPure == InitConc

\* parseRerankerScore on the two streams of a rank run that exited with status 0
ParseCall ==
    /\ Idle
    /\ \E stdout \in Stdouts : \E stderr \in Stderrs :
         last' = [op |-> "parseRerankerScore", stdout |-> stdout, stderr |-> stderr,
                  result |-> parseRerankerScore(stdout, stderr)]
    /\ UNCHANGED <<config, modelPath, built, goroutines, cacheMutex, scoreCache, retry,
                   scorer, first>>

\* cosineSimilarity on two vectors, and the fallback whose two embedding runs
\* answer with these vectors
SimilarityCall ==
    /\ Idle
    /\ \E a \in Vectors : \E b \in Vectors :
         last' = [op |-> "cosineSimilarity", a |-> a, b |-> b,
                  similarity |-> cosineSimilarity(a, b),
                  fallback |-> computeEmbeddingSimilarity(
                                   modelPath, "a", "b",
                                   Answer(RankExecFail, EmbOf(a), EmbOf(b)))]
    /\ UNCHANGED <<config, modelPath, built, goroutines, cacheMutex, scoreCache, retry,
                   scorer, first>>

NextPure ==
    \/ ParseCall
    \/ SimilarityCall
    \/ Return

SpecPure == InitPure /\ [][NextPure]_vars

(***************************************************************************)
(* Properties.                                                             *)
(***************************************************************************)
ScoringOps == {"ComputeScore", "Rerank", "Rank"}

Returned == last.op \in ScoringOps /\ last.status = "ok"

Min(a, b) == IF a <= b THEN a ELSE b

\* the cache key of document i of the last call
KeyOf(i) == last.query \o "|||" \o last.documents[i].Content

\* what the processes launched for document i of the last call printed
RankSaid(i) == last.procs[i][1].run

LastSaid(i) == last.procs[i][Len(last.procs[i])].run

Launched(i) == last.procs[i] # <<>>

PrimaryFailed(i) == Launched(i) /\ RankSaid(i) \in {RankExecFail, RankNoScore}

BothFailed(i) ==
    /\ PrimaryFailed(i)
    /\ Len(last.procs[i]) > 1
    /\ LastSaid(i) \in {EmbExecFail, EmbEmptyData}

\* the score the runs for document i amount to: 7 on the diagnostic stream, 0 on
\* standard output, ten times the cosine of <<1,0>> with <<1,0>> or with <<0,0>>
SaidScore(i) ==
    IF RankSaid(i) = RankStderrScore THEN 7
    ELSE IF RankSaid(i) = RankStdoutScore THEN 0
    ELSE IF LastSaid(i) = EmbUnit THEN 10
    ELSE 0

\* positions of the input found in the output of Rerank (by ID) and Rank (by Index)
InRerankOutput(i) == \E k \in DOMAIN last.out : last.out[k].ID = last.documents[i].ID

InRankOutput(i) == \E k \in DOMAIN last.results : last.results[k].Index = i - 1

(* C1: ComputeScore returns exactly len(D) scores, the i-th score belonging to
   the i-th input document (its process was given that document, and a score
   that is not the failure sentinel is the cache entry of that pair), whatever
   the outcome of the external scorer for each document. *)
C1_OneScorePerDocument ==
    last.op = "ComputeScore" =>
        /\ last.status = "ok"
        /\ Len(last.scores) = Len(last.documents)
        /\ \A i \in DOMAIN last.documents :
             /\ Launched(i) =>
                  RankSaid(i) \in RankRuns
                  /\ last.procs[i][1].prompt =
                        last.query \o "</s><s>" \o last.documents[i].Content
             /\ IF BothFailed(i)
                THEN last.scores[i] = SentinelScore
                ELSE /\ KeyOf(i) \in DOMAIN scoreCache
                     /\ last.scores[i] = scoreCache[KeyOf(i)]

C1_Witness ==
    /\ last.op = "ComputeScore"
    /\ Len(last.documents) = 2
    /\ Launched(1) /\ RankSaid(1) = RankExecFail /\ BothFailed(1)
    /\ Launched(2) /\ RankSaid(2) = RankNoScore /\ ~BothFailed(2)
    /\ last.scores[1] # last.scores[2]

(* C2: when both the rank scoring and the embedding fallback fail for one
   document of a batch, ComputeScore gives that document the sentinel -5,
   returns no error and scores every other document, whose score is the one
   its own runs (or the cache) give. *)
C2_SentinelAndContinue ==
    (last.op = "ComputeScore" /\ \E k \in DOMAIN last.documents : BothFailed(k)) =>
        /\ last.status = "ok"
        /\ DOMAIN last.scores = DOMAIN last.documents
        /\ \A i \in DOMAIN last.documents :
             IF BothFailed(i) THEN last.scores[i] = -5
             ELSE IF Launched(i) THEN last.scores[i] = SaidScore(i)
             ELSE last.scores[i] = scoreCache[KeyOf(i)]

C2_Witness ==
    /\ last.op = "ComputeScore"
    /\ Len(last.documents) = 2
    /\ BothFailed(1)
    /\ Launched(2) /\ ~BothFailed(2) /\ last.scores = <<-5, 7>>

(* C3: a document whose score is strictly below the configured threshold is
   absent from the output of Rerank and of Rank; a document whose score equals
   the threshold is kept by the filter (it is in the output unless the output
   was cut to its maximum length). *)
C3_ThresholdFilter ==
    /\ (last.op = "Rerank" /\ last.status = "ok") =>
          \A i \in DOMAIN last.documents :
             /\ last.scores[i] < config.Threshold => ~InRerankOutput(i)
             /\ (last.scores[i] = config.Threshold /\ Len(last.out) # config.MaxDocs)
                   => InRerankOutput(i)
    /\ (last.op = "Rank" /\ last.status = "ok") =>
          \A i \in DOMAIN last.documents :
             /\ last.scores[i] < config.Threshold => ~InRankOutput(i)
             /\ (last.scores[i] = config.Threshold /\ Len(last.results) # last.topN)
                   => InRankOutput(i)

C3_Witness ==
    /\ last.op = "Rank" /\ last.status = "ok"
    /\ Len(last.documents) = 2
    /\ last.scores[1] < config.Threshold /\ ~InRankOutput(1)
    /\ last.scores[2] = config.Threshold /\ InRankOutput(2)

(* C4: the lists returned by Rerank and by Rank are ordered by non-increasing
   score, also after threshold filtering and truncation. *)
C4_OutputSortedDescending ==
    /\ last.op = "Rerank" =>
          \A k \in 2..Len(last.out) : ~(last.out[k].Score > last.out[k - 1].Score)
    /\ last.op = "Rank" =>
          \A k \in 2..Len(last.results) :
             ~(last.results[k].Score > last.results[k - 1].Score)

C4_Witness ==
    /\ last.op = "Rank"
    /\ Len(last.results) = 2
    /\ last.results[1].Index = 1 /\ last.results[2].Index = 0
    /\ last.results[1].Score > last.results[2].Score

(* C5 as stated: for topN > 0 the number of results of Rank(q, D, topN) is at
   most min(topN, configured MaxDocs, len(D)); taken on the configurations
   whose MaxDocs is positive. *)
C5_RankBoundWithMaxDocs ==
    (last.op = "Rank" /\ last.topN > 0 /\ config.MaxDocs > 0) =>
        Len(last.results) <= Min(last.topN, Min(config.MaxDocs, Len(last.documents)))

(* C5, amended: for topN > 0 the number of results of Rank(q, D, topN) is at
   most min(topN, len(D)); MaxDocs does not bound Rank. *)
C5_RankBound ==
    (last.op = "Rank" /\ last.topN > 0) =>
        Len(last.results) <= Min(last.topN, Len(last.documents))

C5_Witness ==
    /\ last.op = "Rank" /\ last.topN = 1
    /\ Len(last.documents) = 2
    /\ \A i \in DOMAIN last.documents : last.scores[i] >= config.Threshold
    /\ Len(last.results) = 1

(* C6: for every Config accepted by the constructor or by Configure, Rerank
   returns a list of at most min(MaxDocs, len(D)) documents, MaxDocs being the
   maximum in effect; taken on the calls that pass at least one document. *)
C6_RerankBound ==
    (last.op = "Rerank" /\ last.documents # <<>>) =>
        /\ last.status = "ok"
        /\ Len(last.out) <= Min(config.MaxDocs, Len(last.documents))

(* C7: with an empty document list Rerank, Rank (any topN) and ComputeScore
   return an empty result and no error, whatever the configuration and the
   content of the cache. *)
C7_EmptyInput ==
    (last.op \in ScoringOps /\ last.documents = <<>>) =>
        /\ last.status = "ok"
        /\ last.scores = <<>> /\ last.out = <<>> /\ last.results = <<>>
        /\ last.procs = <<>>

C7_Witness ==
    /\ last.op = "Rerank" /\ last.documents = <<>> /\ last.status = "ok"
    /\ config.MaxDocs < 0
    /\ scoreCache # EmptyCache

\* a step in which the engine serves a scoring call
ScoringStep == Idle /\ last'.op \in ScoringOps

\* documents i and j of a call hold the same text
SameContent(call, i, j) == call.documents[i].Content = call.documents[j].Content

(* C8: two ComputeScore calls on one engine with the same query and the same
   documents, no Configure and no Close between them and a deterministic
   external scorer, return the same list of scores. *)
C8_SameScoresTwice ==
    (/\ last.op = "ComputeScore" /\ first.op = "ComputeScore"
     /\ last.query = first.query /\ last.documents = first.documents) =>
        last.scores = first.scores

\* the scores a scoring call hands out are in the cache and come from the cache
C9_Step ==
    /\ ScoringStep =>
          \A i \in DOMAIN last'.documents :
             /\ (Launched(i)' /\ ~BothFailed(i)') =>
                   /\ last'.scores[i] = SaidScore(i)'
                   /\ KeyOf(i)' \in DOMAIN scoreCache'
                   /\ scoreCache'[KeyOf(i)'] = SaidScore(i)'
             /\ KeyOf(i)' \in DOMAIN scoreCache =>
                   /\ last'.procs[i] = <<>>
                   /\ last'.scores[i] = scoreCache[KeyOf(i)']
             /\ \A j \in 1..(i - 1) :
                   (SameContent(last', i, j) /\ Launched(j)' /\ ~BothFailed(j)') =>
                       /\ last'.procs[i] = <<>>
                       /\ last'.scores[i] = last'.scores[j]
    /\ last'.op # "Close" =>
          \A k \in DOMAIN scoreCache :
             k \in DOMAIN scoreCache' /\ scoreCache'[k] = scoreCache[k]

(* C9: every score obtained successfully, by the rank run or by the embedding
   fallback, is stored in the cache under the key of its (query, document)
   pair; the entry stays as it is until Close, and a later scoring of the pair
   (in the same call or in a later one) returns the stored value without
   launching a process. *)
C9_CachedScoreReused == [][C9_Step]_vars

C9_Witness ==
    /\ last.op = "Rerank"
    /\ Len(last.documents) = 2
    /\ ~Launched(1) /\ last.scores[1] = 10 /\ scoreCache[KeyOf(1)] = 10
    /\ Launched(2) /\ last.scores[2] = 7 /\ scoreCache[KeyOf(2)] = 7

(* C10 as stated, its second clause: after a call in which a document received
   the sentinel -5, the cache has no entry for that (query, document) pair. *)
C10_NoEntryAfterSentinel ==
    last.op \in ScoringOps =>
        \A i \in DOMAIN last.documents :
            last.scores[i] = SentinelScore => KeyOf(i) \notin DOMAIN scoreCache

\* the sentinel is handed out without a cache write, and a pair that got it is
\* scored by the processes again while the cache has nothing under its key
C10_Step ==
    ScoringStep =>
        /\ \A k \in DOMAIN scoreCache' : scoreCache'[k] # SentinelScore
        /\ \A i \in DOMAIN last'.documents :
             /\ last'.scores[i] = SentinelScore =>
                   /\ BothFailed(i)'
                   /\ KeyOf(i)' \in DOMAIN scoreCache' <=>
                          \E j \in DOMAIN last'.documents :
                             SameContent(last', i, j) /\ last'.scores[j] # SentinelScore
             /\ (/\ last'.retried[i]
                 /\ KeyOf(i)' \notin DOMAIN scoreCache
                 /\ \A j \in 1..(i - 1) :
                       SameContent(last', i, j) => last'.scores[j] = SentinelScore) =>
                   /\ Launched(i)'
                   /\ ~BothFailed(i)' =>
                         /\ last'.scores[i] = SaidScore(i)'
                         /\ scoreCache'[KeyOf(i)'] = SaidScore(i)'

(* C10, amended: a sentinel score is never written to the cache.  After a call
   in which a document received the sentinel -5, the cache has an entry for
   its (query, document) pair only if another document of the same call with
   the same content was scored successfully, and that entry is the real
   score.  The next scoring of the pair, while nothing is stored under its
   key, launches the external scorer again and returns (and stores) the real
   score if the scorer now succeeds. *)
C10_SentinelNotCached == [][C10_Step]_vars

C10_Witness ==
    /\ last.op = "ComputeScore"
    /\ Len(last.documents) = 2
    /\ last.retried[1] /\ Launched(1) /\ last.scores[1] = 7
    /\ scoreCache[KeyOf(1)] = 7
    /\ last.retried[2] /\ last.scores[2] = SentinelScore
    /\ KeyOf(2) \notin DOMAIN scoreCache

\* the fallback of document i stopped at the embedding of the query
QueryEmbeddingFailed(i) ==
    /\ PrimaryFailed(i)
    /\ Len(last.procs[i]) = 2
    /\ last.procs[i][2].mode = "embedding"
    /\ last.procs[i][2].prompt = last.query
    /\ last.procs[i][2].run \in {EmbExecFail, EmbEmptyData}

(* C11: when the rank run fails and the embedding of the query cannot be
   obtained in the fallback, the ComputeScore, Rank or Rerank call fails with
   an error the caller sees, instead of recovering document by document. *)
C11_QueryEmbeddingFailureIsAnError ==
    (last.op \in ScoringOps /\ \E i \in DOMAIN last.documents : QueryEmbeddingFailed(i)) =>
        last.status = "error"

(* C12: Rerank writes the scores onto copies: when Rerank(q, D) has returned,
   the caller's list D holds the same elements in the same order with the same
   Score fields as before the call. *)
C12_CallerListUntouched ==
    last.op = "Rerank" => last.callerDocs = last.documents

(* C13: after Configure(c) the active threshold, maximum count and model path
   are those of c: a later Rerank or Rank keeps only scores at or above c's
   threshold, Rerank returns at most c's maximum count (taken where that count
   is positive), and every process a later scoring launches is given c's model
   path. *)
C13_ConfigureReplacesAll ==
    (last.op \in ScoringOps /\ last.status = "ok") =>
        /\ \A k \in DOMAIN last.out : last.out[k].Score >= config.Threshold
        /\ \A k \in DOMAIN last.results : last.results[k].Score >= config.Threshold
        /\ (last.op = "Rerank" /\ config.MaxDocs > 0) => Len(last.out) <= config.MaxDocs
        /\ \A i \in DOMAIN last.procs : \A k \in DOMAIN last.procs[i] :
              last.procs[i][k].model = AbsPath(config.Model)

\* the disk holds no llama-embedding binary, as a file or on PATH
NoBinary(disk) == disk.onPath = {} /\ disk.files \cap {LlamaInWork, LlamaInRoot} = {}

(* C14: in every state of a constructed engine, after any sequence of
   Configure calls, the effective maximum result count is never 0: the
   configuration just taken by Configure is in effect, with 100 in the place
   of a maximum count left at 0. *)
C14_MaxDocsNeverZero ==
    built.err = "none" =>
        /\ config.MaxDocs # 0
        /\ last.op = "Configure" =>
              /\ config.Threshold = last.given.Threshold
              /\ config.MaxDocs = IF last.given.MaxDocs = 0 THEN 100 ELSE last.given.MaxDocs

C14_Witness ==
    /\ built.err = "none"
    /\ last.op = "Configure" /\ last.given.MaxDocs = 0
    /\ config.MaxDocs = 100

(* C15: construction fails, with an error and no engine, when the model path
   is empty (invalid input) and when the inference binary or the model file
   does not exist (initialization error); so no operation ever runs, and no
   process is ever launched, on an engine whose binary or model was not found
   at construction. *)
C15_ConstructionFailures ==
    /\ built.model = "" => built.err = "ErrInvalidInput"
    /\ (built.model # "" /\ NoBinary(built.disk)) => built.err = "ErrInitialization"
    /\ (built.model # "" /\ AbsPath(built.model) \notin built.disk.files) =>
           built.err = "ErrInitialization"
    /\ built.err # "none" =>
           modelPath = "" /\ last = NoCall /\ scoreCache = EmptyCache
    /\ last.op # "none" =>
           /\ ~NoBinary(built.disk)
           /\ modelPath \in built.disk.files

C15_Witness ==
    /\ built.model = "models/m1.gguf"
    /\ NoBinary(built.disk) /\ "/work/models/m1.gguf" \in built.disk.files
    /\ built.err = "ErrInitialization"
    /\ modelPath = "" /\ last = NoCall

(* C17: documents with equal scores come out of Rank and Rerank in the order
   of their input index (stable tie-break), so that the output order is a
   function of the scores and the input alone. *)
C17_TiesInInputOrder ==
    /\ last.op = "Rank" =>
          \A k \in 2..Len(last.results) :
             last.results[k].Score = last.results[k - 1].Score =>
                 last.results[k - 1].Index < last.results[k].Index
    /\ last.op = "Rerank" =>
          \A k \in 2..Len(last.out) :
             last.out[k].Score = last.out[k - 1].Score =>
                 last.out[k - 1].ID < last.out[k].ID

\* the score a deterministic scorer's answer amounts to; the sentinel when it
\* is a failure of both paths
AnswerScore(ans) ==
    IF ans.rank = RankStderrScore THEN 7
    ELSE IF ans.qemb = EmbUnit /\ ans.demb = EmbUnit THEN 10
    ELSE SentinelScore

(* C20: two distinct (query, document) pairs never share a cache key, so a
   score read from the cache for a pair was computed for that very pair: with
   a deterministic scorer it is the score the scorer gives to that pair. *)
C20_CachedScoreOfSamePair ==
    last.op = "ComputeScore" =>
        \A i \in DOMAIN last.documents :
            ~Launched(i) =>
                last.scores[i] = AnswerScore(scorer[Pair(last.query, last.documents[i].Content)])

(* C16: the context passed to ComputeScore, Rank and Rerank is honoured by the
   blocking process call: once it is cancelled (or its deadline has passed)
   while a process of the call runs, the call does not wait for the process to
   exit by itself; the process is killed and the call returns cancelled. *)
C16_CancelKillsProcess ==
    [][\A g \in Goroutines :
          (goroutines[g].ctxDone /\ goroutines[g].pc = "wait") =>
              \/ goroutines'[g] = goroutines[g]
              \/ goroutines'[g].pc = "done" /\ goroutines'[g].status = "cancelled"]_vars

\* the statements that read and that write the score cache
CacheReadPcs == {"lookup"}

CacheWritePcs == {"put", "clear"}

(* C18: the accesses to the score cache of one engine obey reader/writer
   exclusion in every interleaving of concurrent ComputeScore, Rank, Rerank
   and Close calls: a lookup is made holding the mutex for reading, a put and
   the clear of Close holding it for writing, and while a goroutine is at a
   write no other goroutine is at a lookup or at a write. *)
C18_ReaderWriterExclusion ==
    \A g \in Goroutines :
        /\ goroutines[g].pc \in CacheReadPcs => g \in cacheMutex.readers
        /\ goroutines[g].pc \in CacheWritePcs =>
              /\ cacheMutex.writer = g
              /\ \A h \in Goroutines \ {g} :
                    goroutines[h].pc \notin CacheReadPcs \cup CacheWritePcs

C18_Witness ==
    /\ goroutines[1].op = "Rerank" /\ goroutines[1].pc = "put"
    /\ goroutines[2].op = "Close" /\ goroutines[2].pc = "lock"
    /\ cacheMutex.writer = 1

\* the engine state the next statement of goroutine g touches: the location,
\* whether it is written, whether g holds the mutex
Touches(g) ==
    LET gr     == goroutines[g]
        locked == g \in cacheMutex.readers \/ cacheMutex.writer = g
    IN  IF gr.pc \in CacheReadPcs
        THEN {[loc |-> "scoreCache", write |-> FALSE, locked |-> locked]}
        ELSE IF gr.pc \in CacheWritePcs
        THEN {[loc |-> "scoreCache", write |-> TRUE, locked |-> locked]}
        ELSE IF gr.pc \in {"spawn", "filter"} \/ (gr.pc = "cut" /\ gr.op = "Rerank")
        THEN {[loc |-> "config", write |-> FALSE, locked |-> locked]}
        ELSE IF gr.pc \in {"assign", "default"}
        THEN {[loc |-> "config", write |-> TRUE, locked |-> locked]}
        ELSE {}

(* C19: the score cache is the only mutable engine state shared between
   calls, and it is lock-guarded: in no interleaving of concurrent calls
   (Configure beside Rank, Rerank and ComputeScore included) are two
   goroutines about to touch the same engine state, one of them writing it,
   unless both hold the reader/writer mutex. *)
C19_NoUnguardedSharedState ==
    \A g \in Goroutines : \A h \in Goroutines \ {g} :
        \A x \in Touches(g) : \A y \in Touches(h) :
            (x.loc = y.loc /\ (x.write \/ y.write)) => (x.locked /\ y.locked)

\* an embedding run that answered with an empty result list, or whose first
\* vector holds nothing but zeros
DegenerateRun(run) ==
    /\ ~run.err /\ run.json
    /\ \/ Len(run.data) = 0
       \/ \A j \in DOMAIN run.data[1] : run.data[1][j] = 0

\* such a run is among the embedding runs launched for document i of the last call
DegenerateEmbedding(i) ==
    \E k \in 2..Len(last.procs[i]) : DegenerateRun(last.procs[i][k].run)

(* C21: in the embedding fallback an embedding response with an empty result
   list, or whose first vector is entirely zero, is a failure of that
   embedding: the document gets no similarity score (its scoring fails, the
   caller sees the sentinel) and nothing is cached for the pair by it. *)
C21_DegenerateEmbeddingFails ==
    last.op \in ScoringOps =>
        \A i \in DOMAIN last.documents :
            DegenerateEmbedding(i) =>
                /\ last.failed[i]
                /\ last.scores[i] = SentinelScore
                /\ KeyOf(i) \in DOMAIN scoreCache =>
                      \E j \in DOMAIN last.documents :
                          SameContent(last, i, j) /\ Launched(j) /\ ~DegenerateEmbedding(j)

(* C22: every result r of Rank(q, D, topN) carries the position its document
   had in D before the sort: 0 <= r.Index < len(D), r.Document is D[r.Index],
   r.Score is the score computed for D[r.Index], and no two results of the
   call have the same Index. *)
C22_IndexIsInputPosition ==
    last.op = "Rank" =>
        \A k \in DOMAIN last.results :
            LET r == last.results[k]
            IN  /\ r.Index \in 0..(Len(last.documents) - 1)
                /\ r.Document = last.documents[r.Index + 1]
                /\ r.Score = last.scores[r.Index + 1]
                /\ \A l \in DOMAIN last.results : l # k => last.results[l].Index # r.Index

C22_Witness ==
    /\ last.op = "Rank"
    /\ Len(last.documents) = 2
    /\ last.documents[1].Content # last.documents[2].Content
    /\ Len(last.results) = 2
    /\ last.results[1].Index = 1 /\ last.results[1].Score = 7
    /\ last.results[2].Index = 0 /\ last.results[2].Score = 0

\* the commands launched for document i of the last call, in the order of launch
Commands(i) == last.procs[i]

(* C23: on a cache miss the rank-mode command runs first; embedding commands
   run only if the rank command failed to execute or its output could not be
   parsed, and then the query embedding before the document embedding, the
   document embedding not being requested when the query embedding failed;
   when the rank command succeeds no embedding command runs for the document. *)
C23_RankFirstThenFallback ==
    last.op \in ScoringOps =>
        \A i \in DOMAIN last.documents :
            Launched(i) =>
                LET cmds == Commands(i)
                    doc  == last.documents[i].Content
                IN  /\ cmds[1].mode = "rank"
                    /\ cmds[1].prompt = last.query \o "</s><s>" \o doc
                    /\ \A k \in 2..Len(cmds) : cmds[k].mode = "embedding"
                    /\ ~tryRerankerInference(cmds[1].run).err => Len(cmds) = 1
                    /\ tryRerankerInference(cmds[1].run).err =>
                          /\ Len(cmds) \in {2, 3}
                          /\ cmds[2].prompt = last.query
                          /\ getEmbedding(cmds[2].run).err => Len(cmds) = 2
                          /\ ~getEmbedding(cmds[2].run).err =>
                                Len(cmds) = 3 /\ cmds[3].prompt = doc

C23_Witness ==
    /\ last.op = "ComputeScore"
    /\ Len(last.documents) = 2
    /\ Len(Commands(1)) = 2 /\ Commands(1)[1].run = RankExecFail
    /\ Commands(1)[2].run = EmbExecFail
    /\ Len(Commands(2)) = 3 /\ Commands(2)[1].run = RankNoScore
    /\ Commands(2)[2].prompt = "a" /\ Commands(2)[3].prompt = "b|||b"

\* field i of line l of the diagnostic stream is a "score" field of a marked
\* line, followed by an index field and a field that parses as a number
DiagnosticValueAt(stderr, l, i) ==
    /\ \E k \in 1..(Len(stderr[l]) - 1) :
          stderr[l][k] = "rerank" /\ stderr[l][k + 1] = "score"
    /\ stderr[l][i] = "score"
    /\ i + 2 <= Len(stderr[l])
    /\ stderr[l][i + 2] \in {"7", "0", "-5", "10"}

\* the places of the diagnostic stream that hold such a value
DiagnosticValues(stderr) ==
    {p \in (1..Len(stderr)) \X (1..7) :
        p[2] <= Len(stderr[p[1]]) /\ DiagnosticValueAt(stderr, p[1], p[2])}

\* place p comes no later than place q in reading order
NoLater(p, q) == p[1] < q[1] \/ (p[1] = q[1] /\ p[2] <= q[2])

\* standard output, trimmed, is one number
StdoutNumber(stdout) ==
    Len(stdout) = 1 /\ Len(stdout[1]) = 1 /\ stdout[1][1] \in {"7", "0", "-5", "10"}

(* C24: the rank-score parser returns the first numeric value that follows a
   "score" field and an index field on a line of the diagnostic stream that
   holds the marker "rerank score", whatever standard output holds; only when
   the diagnostic stream has no such value it returns the trimmed standard
   output parsed as one number; when neither gives a number it fails with a
   parse error and returns no score. *)
C24_ParserPrecedence ==
    last.op = "parseRerankerScore" =>
        LET values == DiagnosticValues(last.stderr)
        IN  /\ values # {} =>
                  \E p \in values :
                      /\ \A q \in values : NoLater(p, q)
                      /\ last.result = [err |-> FALSE,
                                        score |-> NumberOf[last.stderr[p[1]][p[2] + 2]]]
            /\ (values = {} /\ StdoutNumber(last.stdout)) =>
                  last.result = [err |-> FALSE, score |-> NumberOf[last.stdout[1][1]]]
            /\ (values = {} /\ ~StdoutNumber(last.stdout)) =>
                  last.result = [err |-> TRUE, score |-> 0]

C24_Witness ==
    /\ last.op = "parseRerankerScore"
    /\ last.stderr = << <<"rerank", "score", "0:", "nan?">>,
                        <<"rerank", "score", "of", "doc", "score", "1:", "-5">> >>
    /\ last.stdout = << <<"0">> >>
    /\ last.result = [err |-> FALSE, score |-> -5]

\* vector v has zero magnitude: it is empty or holds nothing but zeros
ZeroMagnitude(v) == \A i \in DOMAIN v : v[i] = 0

(* C25: cosineSimilarity returns 0.0, and raises no error, whenever the two
   vectors differ in length or either has zero magnitude (two empty vectors
   included); the fallback score of a pair with such embeddings is then 0.0,
   returned without an error. *)
C25_DegenerateCosineIsZero ==
    (/\ last.op = "cosineSimilarity"
     /\ Len(last.a) # Len(last.b) \/ ZeroMagnitude(last.a) \/ ZeroMagnitude(last.b)) =>
            /\ last.similarity = 0
            /\ ~last.fallback.err
            /\ last.fallback.score = 0

C25_Witness ==
    /\ last.op = "cosineSimilarity"
    /\ last.a = <<2>> /\ last.b = <<0, 2>>
    /\ last.similarity = 0
    /\ last.fallback.err = FALSE /\ last.fallback.score = 0

\* a step of the engine seen from the cache: nothing is removed unless the step
\* is Close, Close leaves nothing, and a scoring call that finds the cache empty
\* launches the scorer for every content of its batch
C26_Step ==
    /\ last'.op # "Close" => DOMAIN scoreCache \subseteq DOMAIN scoreCache'
    /\ (Idle /\ last'.op = "Close") => scoreCache' = EmptyCache
    /\ (ScoringStep /\ scoreCache = EmptyCache) =>
          \A i \in DOMAIN last'.documents :
              (\A j \in 1..(i - 1) : ~SameContent(last', i, j)) => Launched(i)'

(* C26: the cache of an engine is empty right after construction; between
   construction and Close no operation (ComputeScore, Rank, Rerank, Configure)
   removes an entry, so the set of cached keys only grows; Close leaves the
   cache empty and the engine usable, the next scoring of any pair being a
   miss. *)
C26_CacheLifecycle == scoreCache = EmptyCache /\ [][C26_Step]_vars

\* Close was called on a cache holding two entries and left none
C26_Witness ==
    /\ last.op = "Close"
    /\ Cardinality(last.cleared) = 2
    /\ scoreCache = EmptyCache
    /\ built.err = "none"

\* where a goroutine stands while it scores document i of its batch
ScoringPcs ==
    {"rlock", "lookup", "runlock_hit", "runlock_miss", "spawn", "wait", "lock", "put",
     "unlock"}

(* C27: within one ComputeScore, Rank or Rerank call the documents are scored
   one after another in input order (document i is worked on when exactly the
   scores of documents 1..i-1 are in), and at most one external process
   started by the call is running at any time: a process is started only
   after the one before it has been reaped, and it is about document i. *)
C27_OneProcessAtATime ==
    \A g \in Goroutines :
        LET gr == goroutines[g]
        IN  /\ Cardinality(gr.running) <= 1
            /\ gr.running # {} => (gr.pc = "wait" /\ gr.running = {gr.k})
            /\ (gr.op \in ScoringOps /\ gr.pc \in ScoringPcs) =>
                  /\ gr.i \in DOMAIN gr.documents
                  /\ Len(gr.scores) = gr.i - 1
            /\ gr.pc = "wait" =>
                  /\ gr.running # {}
                  /\ gr.run.procs[1].prompt =
                         gr.query \o "</s><s>" \o gr.documents[gr.i].Content

C27_Witness ==
    /\ goroutines[1].op = "Rerank"
    /\ Len(goroutines[1].documents) = 2
    /\ goroutines[1].i = 2 /\ goroutines[1].scores = <<7>>
    /\ goroutines[1].pc = "wait"
    /\ goroutines[1].k = 2 /\ goroutines[1].running = {2}

\* the call goroutine record gr is in scores the pair of the remembered call
SamePairAsRemembered(gr) ==
    /\ gr.since.op = "ComputeScore"
    /\ gr.query = gr.since.query
    /\ gr.documents[1].Content = gr.since.documents[1].Content

(* C28: once a scoring call on an engine has returned a score s that is not
   the sentinel for a pair (q, d), every later scoring of (q, d) on that
   engine returns s until Close is called, in every interleaving of
   concurrent calls and whatever the scorer answers from one invocation to
   the next. *)
C28_ReturnedScoreIsStable ==
    \A g \in Goroutines :
        (/\ goroutines[g].pc = "done"
         /\ goroutines[g].op = "ComputeScore"
         /\ SamePairAsRemembered(goroutines[g])) =>
            goroutines[g].scores = goroutines[g].since.scores

\* Configure writes the configuration and nothing else of the engine, and a
\* scoring call made under a configuration that names another model than the
\* engine was built with still answers from the cache
C29_Step ==
    /\ (Idle /\ last'.op = "Configure") =>
          /\ scoreCache' = scoreCache
          /\ modelPath' = modelPath
          /\ config' = WithDefaults(last'.given)
    /\ (ScoringStep /\ config.Model # built.model) =>
          \A i \in DOMAIN last'.documents :
              KeyOf(i)' \in DOMAIN scoreCache =>
                  /\ ~Launched(i)'
                  /\ last'.scores[i] = scoreCache[KeyOf(i)']

(* C29: Configure changes only the stored configuration and leaves the score
   cache unchanged: a score cached before Configure is still returned for its
   (query, document) pair after Configure, also when the new configuration
   names a different model. *)
C29_ConfigureKeepsCache == [][C29_Step]_vars

\* Configure with another model has been called on a cache that holds entries
C29_Witness ==
    /\ last.op = "Configure"
    /\ last.given.Model = "/opt/m2.gguf" /\ built.model = "models/m1.gguf"
    /\ config.Model = "/opt/m2.gguf"
    /\ Cardinality(DOMAIN scoreCache) = 2

\* the scores of a call are pairwise distinct
DistinctScores(call) ==
    \A i, j \in DOMAIN call.scores : i # j => call.scores[i] # call.scores[j]

\* rr is a Rerank and rk a Rank of the same query and documents with
\* topN = MaxDocs, one called right after the other
RerankBesideRank(rr, rk) ==
    /\ rr.op = "Rerank" /\ rk.op = "Rank"
    /\ rr.query = rk.query
    /\ rk.documents \in {rr.documents, rr.callerDocs}
    /\ rr.documents # <<>>
    /\ rk.topN = config.MaxDocs
    /\ DistinctScores(rr) /\ DistinctScores(rk)

\* Rerank returned the documents of the results of Rank, in their order, with
\* the scores of the results
SameRanking(rr, rk) ==
    /\ rr.status = "ok" /\ rk.status = "ok"
    /\ Len(rr.out) = Len(rk.results)
    /\ \A k \in DOMAIN rr.out :
          /\ rr.out[k].ID = rk.results[k].Document.ID
          /\ rr.out[k].Content = rk.results[k].Document.Content
          /\ rr.out[k].Score = rk.results[k].Score

(* C30: Rerank and Rank agree: for a deterministic scorer and a batch whose
   scores are pairwise distinct, the documents returned by Rerank(q, D) are,
   in the same order, the documents of the results of Rank(q, D, MaxDocs),
   and the Score field of each returned document equals the Score of the
   corresponding Rank result. *)
C30_RerankAgreesWithRank ==
    /\ RerankBesideRank(first, last) => SameRanking(first, last)
    /\ RerankBesideRank(last, first) => SameRanking(last, first)

====
